---- MODULE Spec2Model ----
(***************************************************************************)
(* Model of the client-side behaviour of pbaletkeman/htmxsample:           *)
(*   - handleAuthorDialog (step6/static-files/site.js): binds the show and *)
(*     close triggers of a modal dialog;                                   *)
(*   - swapVisibility / showBooks / hideBooks / countRows (the hyperscript *)
(*     definitions): fade elements in and out and tally checkboxes.        *)
(* The browser runs one script turn at a time; every action below is one   *)
(* such turn.  A hyperscript command that is asynchronous (transition,     *)
(* wait) suspends the function; the commands after it run in a later turn, *)
(* when the transition has ended or the delay has elapsed.                 *)
(***************************************************************************)
EXTENDS Integers, FiniteSets, Sequences, TLC

\* ------------------------------------------------- index sets and bounds
Ids == {1, 2}            \* record ids that have (or lack) dialog markup
Authors == {1, 2}        \* author ids of the book-list rows
MaxBind == 2             \* calls of handleAuthorDialog per id
MaxPending == 2          \* suspended transitions per element
MaxRows == 2             \* checkboxes named "id" the page can hold
MaxTriggers == 2         \* triggers of countRows

VARIABLES
    \* --- DialogController (site.js)
    elems,        \* elems[id].dialog/.show/.close: does getElementById find it
    calls,        \* calls[id]: number of handleAuthorDialog(id) calls so far
    showL,        \* showL[id]: click listeners registered on show<id>
    closeL,       \* closeL[id]: click listeners registered on close<id>
    bindErr,      \* bindErr[id]: the last handleAuthorDialog(id) call threw
    open,         \* open[id]: the dialog is open
    lastAct,      \* lastAct[id]: the most recent click on a trigger of id
    \* --- swapVisibility / showBooks / hideBooks
    disabled,     \* disabled[a]: viewBooks-a carries @disabled
    viewShown,    \* viewShown[a]: viewBooks-a is displayed
    viewOpacity,  \* viewOpacity[a]: opacity viewBooks-a is at or heading to
    swapHidden,   \* swapHidden[a]: swapBooks-a is hidden
    panelShown,   \* panelShown[a]: bookListing-a is displayed
    panelOpacity, \* panelOpacity[a]: opacity bookListing-a is at or heading to
    viewQ,        \* viewQ[a]: swapVisibility calls suspended on viewBooks-a
    panelQ,       \* panelQ[a]: show/hideBooks calls suspended on bookListing-a
    \* --- countRows
    rows,         \* the checkboxes named "id" now in the document
    checked,      \* those of them that are checked
    masterCheck,  \* masterCheck.checked
    selText,      \* text of span#selectedCount
    totText,      \* text of span#totalRecords
    timers,       \* countRows calls suspended in "wait 1.1s"
    triggered,    \* countRows calls so far
    executed,     \* countRows calls that resumed after their delay
    snap,         \* the document as the last resumed countRows call found it
    trig,         \* the document as it was at the last countRows trigger
    overlapped    \* some countRows call was made while another was waiting

dialogVars == <<elems, calls, showL, closeL, bindErr, open, lastAct>>
bookVars == <<disabled, viewShown, viewOpacity, swapHidden, panelShown,
              panelOpacity, viewQ, panelQ>>
rowVars == <<rows, checked, masterCheck, selText, totText, timers,
             triggered, executed, snap, trig, overlapped>>
vars == <<dialogVars, bookVars, rowVars>>

\* ======================================================= DialogController
Docs == [Ids -> [dialog : BOOLEAN, show : BOOLEAN, close : BOOLEAN]]
FullDoc == [id \in Ids |-> [dialog |-> TRUE, show |-> TRUE, close |-> TRUE]]
NoAct == [kind |-> "none", calls |-> 0, ran |-> 0, wasOpen |-> FALSE,
          prevented |-> FALSE, threw |-> FALSE, afterFail |-> FALSE]

DialogStart ==
    /\ calls = [id \in Ids |-> 0]
    /\ showL = [id \in Ids |-> 0]
    /\ closeL = [id \in Ids |-> 0]
    /\ bindErr = [id \in Ids |-> FALSE]
    /\ open = [id \in Ids |-> FALSE]
    /\ lastAct = [id \in Ids |-> NoAct]

\* The page as rendered: any of the three elements of an id may be absent.
InitDialog == elems \in Docs /\ DialogStart

\* A page whose dialog markup is complete.
InitDialogFull == elems = FullDoc /\ DialogStart

\* showBtn.addEventListener throws on a null showBtn (line 6).
ShowBindThrows(e) == ~e.show

\* closeBtn.addEventListener throws on a null closeBtn (line 10).
CloseBindThrows(e) == ~e.close

\* Mutant: the binding validates all three lookups.
BindThrowsAnyMissing(e) == ~e.dialog \/ ~e.show \/ ~e.close
\* handleAuthorDialog(id) ends in a TypeError: a null dialogElem is only
\* captured by the closures, never dereferenced during the call.
BindThrows(e) == ShowBindThrows(e) \/ CloseBindThrows(e)

\* handleAuthorDialog(id), lines 1-15.
handleAuthorDialog(id) ==
    /\ calls[id] < MaxBind
    /\ calls' = [calls EXCEPT ![id] = @ + 1]
    /\ showL' = [showL EXCEPT ![id] = IF ShowBindThrows(elems[id]) THEN @ ELSE @ + 1]
    /\ closeL' = [closeL EXCEPT ![id] = IF BindThrows(elems[id]) THEN @ ELSE @ + 1]
    /\ bindErr' = [bindErr EXCEPT ![id] = BindThrows(elems[id])]
    /\ UNCHANGED <<elems, open, lastAct,
                   bookVars, rowVars>>

\* One run of the show listener (lines 6-8) on the state st of a click
\* dispatch.  showModal on a dialog that is already open leaves it open,
\* whether it returns or throws; nothing follows it in the listener.
ShowListener(dlg, st) ==
    IF ~dlg THEN [st EXCEPT !.threw = TRUE] ELSE [st EXCEPT !.open = TRUE]

\* One run of the close listener (lines 10-14): close, then preventDefault
\* on the event being dispatched.
CloseListenerPreventFirst(dlg, st) ==
    IF ~dlg THEN [st EXCEPT !.prevented = TRUE, !.threw = TRUE]
    ELSE [st EXCEPT !.open = FALSE, !.prevented = TRUE]
CloseListenerNoPrevent(dlg, st) ==
    IF ~dlg THEN [st EXCEPT !.threw = TRUE] ELSE [st EXCEPT !.open = FALSE]
CloseListener(dlg, st) ==
    IF ~dlg THEN [st EXCEPT !.threw = TRUE]
    ELSE [st EXCEPT !.open = FALSE, !.prevented = TRUE]

\* The dispatch of one click to the n listeners of a trigger: an uncaught
\* error in one listener does not stop the others.
RECURSIVE Dispatch(_, _, _, _)
Dispatch(kind, n, dlg, st) ==
    IF n = 0 THEN st
    ELSE Dispatch(kind, n - 1, dlg,
                  IF kind = "show" THEN ShowListener(dlg, st)
                  ELSE CloseListener(dlg, st))

\* Some other id's most recent click ended in an uncaught error.
OtherFailed(id) == \E j \in Ids \ {id} : lastAct[j].threw

\* What one click on the kind-trigger of id does to the dialog and the event.
Clicked(id, kind) ==
    Dispatch(kind, IF kind = "show" THEN showL[id] ELSE closeL[id], elems[id].dialog,
             [open |-> open[id], prevented |-> FALSE, threw |-> FALSE])

\* The record kept of a click: which trigger, after how many binding calls,
\* how many listeners ran, and what they did to the event.
Activation(id, kind, r) ==
    [kind |-> kind, calls |-> calls[id],
     ran |-> IF kind = "show" THEN showL[id] ELSE closeL[id],
     wasOpen |-> open[id], prevented |-> r.prevented,
     threw |-> r.threw, afterFail |-> OtherFailed(id)]

\* A click on show<id>.
ClickShow(id) ==
    /\ elems[id].show
    /\ open' = [open EXCEPT ![id] = Clicked(id, "show").open]
    /\ lastAct' = [lastAct EXCEPT ![id] = Activation(id, "show", Clicked(id, "show"))]
    /\ UNCHANGED <<elems, calls, showL, closeL, bindErr,
                   bookVars, rowVars>>

\* A click on close<id>.
ClickClose(id) ==
    /\ elems[id].close
    /\ open' = [open EXCEPT ![id] = Clicked(id, "close").open]
    /\ lastAct' = [lastAct EXCEPT ![id] = Activation(id, "close", Clicked(id, "close"))]
    /\ UNCHANGED <<elems, calls, showL, closeL, bindErr,
                   bookVars, rowVars>>

NextDialog ==
    \/ \E id \in Ids : handleAuthorDialog(id)
    \/ \E id \in Ids : ClickShow(id)
    \/ \E id \in Ids : ClickClose(id)

\* ============================== swapVisibility / showBooks / hideBooks
\* Page load: the view-toggle is enabled and not yet displayed, the swap
\* control is displayed, the listing panel is hidden and transparent.
InitBooks ==
    /\ disabled = [a \in Authors |-> FALSE]
    /\ viewShown = [a \in Authors |-> FALSE]
    /\ viewOpacity = [a \in Authors |-> 0]
    /\ swapHidden = [a \in Authors |-> FALSE]
    /\ panelShown = [a \in Authors |-> FALSE]
    /\ panelOpacity = [a \in Authors |-> 0]
    /\ viewQ = [a \in Authors |-> 0]
    /\ panelQ = [a \in Authors |-> <<>>]

\* Mutant: the swap control is hidden in the turn of the invocation.
SwapVisibilityEager(a) ==
    /\ viewQ[a] < MaxPending
    /\ disabled' = [disabled EXCEPT ![a] = TRUE]
    /\ viewOpacity' = [viewOpacity EXCEPT ![a] = 100]
    /\ swapHidden' = [swapHidden EXCEPT ![a] = TRUE]
    /\ viewQ' = [viewQ EXCEPT ![a] = @ + 1]
    /\ UNCHANGED <<viewShown, panelShown, panelOpacity, panelQ,
                   dialogVars, rowVars>>
\* swapVisibility(a), lines 2-3 up to the suspension in "transition":
\* add @disabled, start the 3 s opacity transition of viewBooks-a.
SwapVisibility(a) ==
    /\ viewQ[a] < MaxPending
    /\ disabled' = [disabled EXCEPT ![a] = TRUE]
    /\ viewOpacity' = [viewOpacity EXCEPT ![a] = 100]
    /\ viewQ' = [viewQ EXCEPT ![a] = @ + 1]
    /\ UNCHANGED <<viewShown, swapHidden, panelShown, panelOpacity, panelQ,
                   dialogVars, rowVars>>

\* swapVisibility(a) resumed when the transition has ended, lines 3-4:
\* show viewBooks-a, hide swapBooks-a.
SwapVisibilityResume(a) ==
    /\ viewQ[a] > 0
    /\ viewQ' = [viewQ EXCEPT ![a] = @ - 1]
    /\ viewShown' = [viewShown EXCEPT ![a] = TRUE]
    /\ swapHidden' = [swapHidden EXCEPT ![a] = TRUE]
    /\ UNCHANGED <<disabled, viewOpacity, panelShown, panelOpacity, panelQ,
                   dialogVars, rowVars>>

\* showBooks(a), lines 8-9 up to the suspension in "transition".
ShowBooks(a) ==
    /\ Len(panelQ[a]) < MaxPending
    /\ disabled' = [disabled EXCEPT ![a] = TRUE]
    /\ panelOpacity' = [panelOpacity EXCEPT ![a] = 100]
    /\ panelQ' = [panelQ EXCEPT ![a] = Append(@, "show")]
    /\ UNCHANGED <<viewShown, viewOpacity, swapHidden, panelShown, viewQ,
                   dialogVars, rowVars>>

\* showBooks(a) resumed, line 9: show bookListing-a.  The calls suspended
\* on one element resume in the order they were made.
ShowBooksResume(a) ==
    /\ panelQ[a] # <<>> /\ Head(panelQ[a]) = "show"
    /\ panelQ' = [panelQ EXCEPT ![a] = Tail(@)]
    /\ panelShown' = [panelShown EXCEPT ![a] = TRUE]
    /\ UNCHANGED <<disabled, viewShown, viewOpacity, swapHidden, panelOpacity, viewQ,
                   dialogVars, rowVars>>

\* Mutant: @disabled is removed in the turn of the invocation.
HideBooksEager(a) ==
    /\ Len(panelQ[a]) < MaxPending
    /\ panelOpacity' = [panelOpacity EXCEPT ![a] = 0]
    /\ disabled' = [disabled EXCEPT ![a] = FALSE]
    /\ panelQ' = [panelQ EXCEPT ![a] = Append(@, "hide")]
    /\ UNCHANGED <<viewShown, viewOpacity, swapHidden, panelShown, viewQ,
                   dialogVars, rowVars>>
\* hideBooks(a), line 13 up to the suspension in "transition".
HideBooks(a) ==
    /\ Len(panelQ[a]) < MaxPending
    /\ panelOpacity' = [panelOpacity EXCEPT ![a] = 0]
    /\ panelQ' = [panelQ EXCEPT ![a] = Append(@, "hide")]
    /\ UNCHANGED <<disabled, viewShown, viewOpacity, swapHidden, panelShown, viewQ,
                   dialogVars, rowVars>>

\* hideBooks(a) resumed, lines 13-14: hide bookListing-a, remove @disabled.
HideBooksResume(a) ==
    /\ panelQ[a] # <<>> /\ Head(panelQ[a]) = "hide"
    /\ panelQ' = [panelQ EXCEPT ![a] = Tail(@)]
    /\ panelShown' = [panelShown EXCEPT ![a] = FALSE]
    /\ disabled' = [disabled EXCEPT ![a] = FALSE]
    /\ UNCHANGED <<viewShown, viewOpacity, swapHidden, panelOpacity, viewQ,
                   dialogVars, rowVars>>

NextBooks ==
    \/ \E a \in Authors : SwapVisibility(a)
    \/ \E a \in Authors : SwapVisibilityResume(a)
    \/ \E a \in Authors : ShowBooks(a)
    \/ \E a \in Authors : ShowBooksResume(a)
    \/ \E a \in Authors : HideBooks(a)
    \/ \E a \in Authors : HideBooksResume(a)

\* showBooks and hideBooks alone.
NextShowHide ==
    \/ \E a \in Authors : ShowBooks(a)
    \/ \E a \in Authors : ShowBooksResume(a)
    \/ \E a \in Authors : HideBooks(a)
    \/ \E a \in Authors : HideBooksResume(a)

\* ============================================================ countRows
AllRows == 1 .. MaxRows
\* What is kept of a document state: how many rows are checked, how many
\* there are, and masterCheck.checked.
Doc == [sel |-> Cardinality(checked), tot |-> Cardinality(rows), master |-> masterCheck]
NoSnap == [sel |-> 0, tot |-> 0, master |-> FALSE]

RowsStart ==
    /\ checked \in SUBSET rows
    /\ masterCheck = FALSE
    /\ selText = ""
    /\ totText = ""
    /\ timers = 0
    /\ triggered = 0
    /\ executed = 0
    /\ snap = NoSnap
    /\ trig = NoSnap
    /\ overlapped = FALSE

\* The page as rendered: any number of row checkboxes, any of them checked.
InitRows == rows \in SUBSET AllRows /\ RowsStart

\* A page with an empty table.
InitRowsEmpty == rows = {} /\ RowsStart

\* "put <number> into <span/>" writes the number's decimal text.
Str(n) == ToString(n)

\* (<input[name='id']:checked/>).length, line 20.
SelectedCountAll(rs, ch) == Cardinality(rs)
SelectedCount(rs, ch) == Cardinality(ch)

\* (<input[name='id']/>).length, line 23.
TotalCountUnchecked(rs, ch) == Cardinality(rs \ ch)
TotalCount(rs, ch) == Cardinality(rs)

\* Lines 26-28: masterCheck.checked after the "if".
MasterAfterAssign(sel, tot, m) == tot = sel
MasterAfter(sel, tot, m) == IF tot = sel THEN TRUE ELSE m

\* Mutant: a new trigger replaces the pending timer (debounce).
TimersAfterTriggerDebounced(t) == 1
\* "wait 1.1s": every call suspends on a timer of its own.
TimersAfterTrigger(t) == t + 1

\* countRows(), lines 17-19: the call suspends in "wait 1.1s".
CountRows ==
    /\ triggered < MaxTriggers
    /\ triggered' = triggered + 1
    /\ timers' = TimersAfterTrigger(timers)
    /\ trig' = Doc
    /\ overlapped' = (overlapped \/ timers > 0)
    /\ UNCHANGED <<rows, checked, masterCheck, selText, totText, executed, snap,
                   dialogVars, bookVars>>

\* countRows() resumed when its delay has elapsed, lines 20-28, one turn.
CountRowsResume ==
    /\ timers > 0
    /\ timers' = timers - 1
    /\ executed' = executed + 1
    /\ LET selectedCount == SelectedCount(rows, checked)
           totalCount == TotalCount(rows, checked)
       IN /\ selText' = Str(selectedCount)
          /\ totText' = Str(totalCount)
          /\ masterCheck' = MasterAfter(selectedCount, totalCount, masterCheck)
    /\ snap' = Doc
    /\ UNCHANGED <<rows, checked, triggered, trig, overlapped,
                   dialogVars, bookVars>>

\* The user and the server-driven swaps change the document between turns.
ToggleRow(r) ==
    /\ r \in rows
    /\ checked' = IF r \in checked THEN checked \ {r} ELSE checked \cup {r}
    /\ UNCHANGED <<rows, masterCheck, selText, totText, timers, triggered,
                   executed, snap, trig, overlapped,
                   dialogVars, bookVars>>

AddRow(r) ==
    /\ r \in AllRows \ rows
    /\ rows' = rows \cup {r}
    /\ UNCHANGED <<checked, masterCheck, selText, totText, timers, triggered,
                   executed, snap, trig, overlapped,
                   dialogVars, bookVars>>

RemoveRow(r) ==
    /\ r \in rows
    /\ rows' = rows \ {r}
    /\ checked' = checked \ {r}
    /\ UNCHANGED <<masterCheck, selText, totText, timers, triggered,
                   executed, snap, trig, overlapped,
                   dialogVars, bookVars>>

ClickMaster ==
    /\ masterCheck' = ~masterCheck
    /\ UNCHANGED <<rows, checked, selText, totText, timers, triggered,
                   executed, snap, trig, overlapped,
                   dialogVars, bookVars>>

NextRows ==
    \/ CountRows
    \/ CountRowsResume
    \/ \E r \in AllRows : ToggleRow(r)
    \/ \E r \in AllRows : AddRow(r)
    \/ \E r \in AllRows : RemoveRow(r)
    \/ ClickMaster

\* ======================================================= specifications
Init == InitDialog /\ InitBooks /\ InitRows
Next == NextDialog \/ NextBooks \/ NextRows
Spec == Init /\ [][Next]_vars

\* Each component alone, the other two at rest.
InitDialogOnly == InitDialog /\ InitBooks /\ InitRowsEmpty
InitBooksOnly == InitDialogFull /\ InitBooks /\ InitRowsEmpty
InitRowsOnly == InitDialogFull /\ InitBooks /\ InitRows
SpecDialog == InitDialogOnly /\ [][NextDialog]_vars
SpecBooks == InitBooksOnly /\ [][NextBooks]_vars
SpecShowHide == InitBooksOnly /\ [][NextShowHide]_vars
SpecRows == InitRowsOnly /\ [][NextRows]_vars
\* A timer that is set does fire.
SpecRowsFair == SpecRows /\ WF_vars(CountRowsResume)
\* ================================================================ claims
AllPresent(id) == elems[id].dialog /\ elems[id].show /\ elems[id].close
\* The most recent click on a trigger of id came after the one binding call.
BoundOnce(id) == AllPresent(id) /\ calls[id] = 1 /\ lastAct[id].calls = 1

\* C1: with all three elements present and handleAuthorDialog(id) called
\* once, the dialog is open exactly when the most recent click was on
\* show<id>, and every click on close<id> had its default action prevented.
C1_DialogFollowsLastClick ==
    \A id \in Ids :
        /\ BoundOnce(id) /\ lastAct[id].kind = "show" => open[id]
        /\ BoundOnce(id) /\ lastAct[id].kind = "close" =>
               ~open[id] /\ lastAct[id].prevented
        /\ AllPresent(id) /\ calls[id] = 1 /\ open[id] =>
               lastAct[id].kind = "show" /\ lastAct[id].calls = 1

\* An open dialog was closed by a click on close<id>, default prevented.
C1_Witness ==
    \E id \in Ids :
        /\ BoundOnce(id) /\ lastAct[id].kind = "close"
        /\ lastAct[id].wasOpen /\ ~open[id] /\ lastAct[id].prevented

\* C2 as stated: handleAuthorDialog(id) throws whenever any of dialog<id>,
\* show<id>, close<id> is missing.
C2_BindFailsOnAnyMissing ==
    \A id \in Ids : calls[id] > 0 /\ ~AllPresent(id) => bindErr[id]

\* C2 amended: handleAuthorDialog(id) throws exactly when show<id> or
\* close<id> is missing; with only dialog<id> missing the call completes and
\* registers both listeners.
C2_BindFailsOnMissingTrigger ==
    \A id \in Ids :
        calls[id] > 0 =>
            /\ bindErr[id] <=> (~elems[id].show \/ ~elems[id].close)
            /\ ~elems[id].dialog /\ elems[id].show /\ elems[id].close =>
                   showL[id] = calls[id] /\ closeL[id] = calls[id]

\* A binding call on an id whose dialog alone is missing went through.
C2_Witness ==
    \E id \in Ids :
        /\ calls[id] > 0 /\ ~elems[id].dialog /\ elems[id].show /\ elems[id].close
        /\ ~bindErr[id] /\ showL[id] > 0 /\ closeL[id] > 0

\* C9: a listener that runs on a null dialog throws at the dialog call, so
\* the close listener never reaches preventDefault and the dialog state is
\* untouched; clicks on the triggers of a fully present id made after such
\* a failure on another id still open and close its dialog.
C9_FailureStaysLocal ==
    \A id \in Ids :
        /\ lastAct[id].ran > 0 /\ ~elems[id].dialog =>
               lastAct[id].threw /\ ~lastAct[id].prevented /\ ~open[id]
        /\ BoundOnce(id) /\ lastAct[id].afterFail =>
               /\ ~lastAct[id].threw
               /\ lastAct[id].kind = "show" => open[id]
               /\ lastAct[id].kind = "close" => ~open[id] /\ lastAct[id].prevented

\* The close listener of one id threw, and a later click opened the dialog
\* of another id.
C9_Witness ==
    \E i \in Ids, j \in Ids :
        /\ i # j
        /\ lastAct[i].kind = "close" /\ lastAct[i].ran > 0
        /\ lastAct[i].threw /\ ~lastAct[i].prevented
        /\ BoundOnce(j) /\ lastAct[j].afterFail
        /\ lastAct[j].kind = "show" /\ open[j]

\* C3 as stated: hideBooks(a) removes @disabled in the turn it is invoked.
C3_EnabledOnInvocation ==
    [][\A a \in Authors : HideBooks(a) => ~disabled'[a]]_vars

\* C3 amended: the turn that invokes hideBooks(a) leaves @disabled as it
\* is; @disabled is removed only in the turn in which a hideBooks(a) call
\* resumes after its transition, the turn that also hides the panel.
C3_EnabledAfterFade ==
    [][\A a \in Authors :
          /\ HideBooks(a) => disabled'[a] = disabled[a]
          /\ disabled[a] /\ ~disabled'[a] => HideBooksResume(a) /\ ~panelShown'[a]]_vars

\* The fade-out of a shown panel is in flight and the toggle is still disabled.
C3_Witness ==
    \E a \in Authors :
        /\ panelQ[a] # <<>> /\ Head(panelQ[a]) = "hide"
        /\ panelShown[a] /\ panelOpacity[a] = 0 /\ disabled[a]

\* C4 as stated: swapVisibility(a) hides swapBooks-a in the turn it is
\* invoked.
C4_SwapHiddenOnInvocation ==
    [][\A a \in Authors : SwapVisibility(a) => swapHidden'[a]]_vars

\* C4 amended: the turn that invokes swapVisibility(a) disables viewBooks-a
\* and changes the display of neither viewBooks-a nor swapBooks-a; both
\* change only in the turn in which a swapVisibility(a) call resumes after
\* the transition, which shows viewBooks-a and hides swapBooks-a.
C4_SwapHiddenAfterTransition ==
    [][\A a \in Authors :
          /\ SwapVisibility(a) =>
                 /\ disabled'[a]
                 /\ swapHidden'[a] = swapHidden[a]
                 /\ viewShown'[a] = viewShown[a]
          /\ (swapHidden'[a] # swapHidden[a] \/ viewShown'[a] # viewShown[a]) =>
                 SwapVisibilityResume(a) /\ viewShown'[a] /\ swapHidden'[a]]_vars

\* The 3 s transition is in flight: the toggle is disabled, swapBooks-a is
\* still displayed.
C4_Witness ==
    \E a \in Authors :
        viewQ[a] > 0 /\ disabled[a] /\ viewOpacity[a] = 100
            /\ ~swapHidden[a] /\ ~viewShown[a]

\* C5: whenever bookListing-a is shown, viewBooks-a is disabled.
C5_DisabledWhileShown ==
    \A a \in Authors : panelShown[a] => disabled[a]

\* The decimal text read back as a number.
Num(s) == CHOOSE n \in 0 .. MaxRows : Str(n) = s

\* C6: the turn in which a countRows call resumes writes the number of
\* checked rows and the number of rows of the document as it is in that
\* turn, and checks masterCheck when the two are equal (zero rows included).
C6_CountsCurrentDocument ==
    [][CountRowsResume =>
          /\ selText' = Str(Cardinality(checked))
          /\ totText' = Str(Cardinality(rows))
          /\ Cardinality(checked) = Cardinality(rows) => masterCheck']_vars

\* The one call made so far resumed on a document whose checked count is
\* not the one it had when the call was made, and wrote the current one.
C6_Witness ==
    /\ triggered = 1 /\ executed = 1
    /\ snap.sel # trig.sel /\ snap.tot # trig.tot
    /\ selText = Str(snap.sel)
    /\ totText = Str(snap.tot)

\* C7: a resuming countRows call never unchecks masterCheck, and leaves it
\* as it was when the checked count differs from the total.
C7_MasterOnlySet ==
    [][CountRowsResume =>
          /\ masterCheck => masterCheck'
          /\ Cardinality(checked) # Cardinality(rows) =>
                 masterCheck' = masterCheck]_vars

\* A call resumed with masterCheck checked and the counts different, and
\* masterCheck is still checked.
C7_Witness ==
    /\ executed > 0 /\ snap.master
    /\ snap.sel # snap.tot
    /\ Cardinality(checked) = snap.sel /\ Cardinality(rows) = snap.tot
    /\ masterCheck

\* C8: every trigger of countRows adds a timer of its own whatever is
\* pending, no timer is dropped, and each trigger is followed by an
\* execution: the k-th trigger leads to at least k executions.
C8_EveryTriggerExecutes ==
    /\ [](executed + timers = triggered)
    /\ [](triggered < MaxTriggers => ENABLED CountRows)
    /\ [][CountRows => timers' = timers + 1]_vars
    /\ [][timers' < timers => CountRowsResume]_vars
    /\ \A k \in 1 .. MaxTriggers : (triggered >= k) ~> (executed >= k)

\* Calls were made while another was waiting, and all of them have run.
C8_Witness ==
    overlapped /\ triggered >= 2 /\ timers = 0 /\ executed = triggered

\* C10: once a countRows call has resumed, the two displayed counts are
\* those of one document state, the one that call read, and the displayed
\* selected count is at most the displayed total.
C10_CountsFromOneSnapshot ==
    executed > 0 =>
        /\ selText = Str(snap.sel)
        /\ totText = Str(snap.tot)
        /\ Num(selText) <= Num(totText)

\* Overlapping calls have run and the document has since moved on.
C10_Witness ==
    /\ overlapped /\ executed >= 2
    /\ Cardinality(rows) # snap.tot /\ Cardinality(checked) # snap.sel
    /\ Num(selText) <= Num(totText) /\ Num(totText) > 0
====
